---- MODULE Spec2Model ----
(***************************************************************************)
(* HwTracker: the activity sampler (ActivityTracker.run), the session      *)
(* segmenter (HwTrackerMainWindow.handle_activity) and the session store   *)
(* (DatabaseManager, table activity_sessions).                             *)
(*                                                                         *)
(* Time is counted in clock ticks, TicksPerSec ticks to the second, so     *)
(* that the truncation of a duration to whole seconds is visible.          *)
(* Python's None and SQL's NULL are the empty tuple <<>>, a present value  *)
(* x is the one-element tuple <<x>>.                                       *)
(***************************************************************************)
EXTENDS Integers, Sequences, FiniteSets, TLC

\* ---------------------------------------------------------------- bounds
TicksPerSec == 2
MaxTime == 6
MaxQueue == 2
MaxSessions == 3
IdleThresholdSecs == 1
DayTicks == 4
MaxStatRows == 2
StatDays == {1, 2}
StatDurations == {0, 3}
EpochDays == 2

\* run(): time.sleep(5) after an exception
ErrorSleepSecs == 5

Procs == {"A", "B"}
Titles == {"", "T"}
Platforms == {"window", "process"}
Tags == {"work"}

None == <<>>
Some(x) == <<x>>

VARIABLES
    now,                \* the wall clock, in ticks
    platform,           \* which probe get_active_window dispatches to
    running,            \* ActivityTracker.running
    idle_threshold,     \* ActivityTracker.idle_threshold, seconds
    last_activity_time, \* ActivityTracker.last_activity_time, ticks
    tpc,                \* position of the tracker thread in run()
    wake,               \* end of the tracker's current time.sleep(1)
    queue,              \* activity_detected signals queued to the GUI thread
    mpc,                \* position of the GUI thread
    current_session,    \* HwTrackerMainWindow.current_session
    last_activity,      \* HwTrackerMainWindow.last_activity
    rows,               \* table activity_sessions, in insertion order
    nextId,             \* the AUTOINCREMENT counter of activity_sessions
    sessions,           \* history: every session the segmenter opened
    last,               \* history: the last call of handle_activity
    tick,               \* history: what the tracker's current poll tick did
    ui,                 \* what clear_data purged and the widgets display
    stats               \* the last result of get_app_usage_stats

vars == <<now, platform, running, idle_threshold, last_activity_time, tpc,
          wake, queue, mpc, current_session, last_activity, rows, nextId,
          sessions, last, tick, ui, stats>>

trackerVars == <<running, idle_threshold, last_activity_time, tpc, wake, tick>>
uiVars == <<ui, stats>>
windowVars == <<current_session, last_activity, rows, nextId, sessions, last>>

\* ------------------------------------------------------------ observations
\* dict.get(key): None when the key is absent
Get(d, k) == IF k \in DOMAIN d THEN Some(d[k]) ELSE None

\* the dict built by _get_windows_active_window / _get_linux_active_window
WindowObs(p, w, t) ==
    [type |-> "window", process_name |-> p, window_title |-> w, timestamp |-> t]

\* the dict built by _get_generic_active_process: the title is the name
ProcessObs(p, t) ==
    [type |-> "process", process_name |-> p, window_title |-> p, timestamp |-> t]

\* the dict emitted by run() when the idle threshold is exceeded
IdleObs(t) == [type |-> "idle", timestamp |-> t]

\* what the platform's window and process APIs can do at time t: raise,
\* give nothing, or give the foreground context
platform_probe(t) ==
    {[raised |-> TRUE, value |-> None], [raised |-> FALSE, value |-> None]}
    \cup
    (IF platform = "window"
       THEN {[raised |-> FALSE, value |-> Some(WindowObs(p, w, t))] :
                p \in Procs, w \in Titles}
       ELSE {[raised |-> FALSE, value |-> Some(ProcessObs(p, t))] : p \in Procs})

\* variant: no try/except around the probe
get_active_window_nocatch(o) == o

\* get_active_window: try: return the probe's result; except Exception:
\* return None (the probes' own try/except blocks convert the same way)
get_active_window(o) ==
    IF o.raised THEN [raised |-> FALSE, value |-> None] ELSE o

\* variant: the threshold counts as exceeded when it is reached
idle_exceeded_geq(t, lat, threshold) ==
    t - lat >= threshold * TicksPerSec

\* run(): time.time() - self.last_activity_time > self.idle_threshold
idle_exceeded(t, lat, threshold) ==
    t - lat > threshold * TicksPerSec

\* ------------------------------------------------------------------ store
\* variant: the row is stamped with the clock at the time of the INSERT
log_activity_row_now(id, activity) ==
    [id |-> id,
     process_name |-> IF "process_name" \in DOMAIN activity
                        THEN activity.process_name ELSE "Unknown",
     window_title |-> IF "window_title" \in DOMAIN activity
                        THEN activity.window_title ELSE "",
     start_time |-> Some(now),
     end_time |-> None,
     duration |-> 0,
     tag |-> None,
     is_idle |-> (Get(activity, "type") = Some("idle"))]

\* the row INSERTed by log_activity; end_time, duration and tag take the
\* column defaults
log_activity_row(id, activity) ==
    [id |-> id,
     process_name |-> IF "process_name" \in DOMAIN activity
                        THEN activity.process_name ELSE "Unknown",
     window_title |-> IF "window_title" \in DOMAIN activity
                        THEN activity.window_title ELSE "",
     start_time |-> Get(activity, "timestamp"),
     end_time |-> None,
     duration |-> 0,
     tag |-> None,
     is_idle |-> (Get(activity, "type") = Some("idle"))]

log_activity(db, activity) ==
    [rows |-> Append(db.rows, log_activity_row(db.nextId, activity)),
     nextId |-> db.nextId + 1]

\* datetime.isoformat(), the text SQLite stores and compares: the day, 'T',
\* the second of the day, and the fraction only when it is not zero.
\* Characters are their ASCII codes; the model's clock starts EpochDays
\* after the first day the text can name.
IsoFormat(t) ==
    LET u == t + EpochDays * DayTicks
        day == u \div DayTicks
        sec == (u % DayTicks) \div TicksPerSec
        frac == (u % DayTicks) % TicksPerSec
    IN <<48 + day, 84, 48 + sec>> \o (IF frac = 0 THEN <<>> ELSE <<46, 48 + frac>>)

\* SQLite's comparison of two TEXT values: byte by byte, a prefix first
RECURSIVE TextLeq(_, _)
TextLeq(a, b) ==
    IF a = <<>> THEN TRUE
    ELSE IF b = <<>> THEN FALSE
    ELSE IF a[1] < b[1] THEN TRUE
    ELSE IF a[1] > b[1] THEN FALSE
    ELSE TextLeq(Tail(a), Tail(b))

\* SUM(duration) and COUNT(*) of one GROUP BY process_name group
RECURSIVE GroupSum(_, _)
GroupSum(rs, p) ==
    IF rs = <<>> THEN 0
    ELSE (IF Head(rs).process_name = p THEN Head(rs).duration ELSE 0)
         + GroupSum(Tail(rs), p)

RECURSIVE GroupCount(_, _)
GroupCount(rs, p) ==
    IF rs = <<>> THEN 0
    ELSE (IF Head(rs).process_name = p THEN 1 ELSE 0) + GroupCount(Tail(rs), p)

\* variant: the query has no is_idle condition
get_app_usage_stats_withidle(rs, t, days) ==
    LET start_date == IsoFormat(t - days * DayTicks)
        end_date == IsoFormat(t)
        InWhere(r) == /\ TextLeq(start_date, IsoFormat(r.start_time[1]))
                      /\ TextLeq(IsoFormat(r.start_time[1]), end_date)
        sel == SelectSeq(rs, InWhere)
    IN [p \in {sel[i].process_name : i \in 1..Len(sel)} |->
          [total_time |-> GroupSum(sel, p), session_count |-> GroupCount(sel, p)]]

\* get_app_usage_stats: the dict process_name -> total_time, session_count
\* (the order of its keys, ORDER BY total_time DESC, is not modelled)
get_app_usage_stats(rs, t, days) ==
    LET start_date == IsoFormat(t - days * DayTicks)
        end_date == IsoFormat(t)
        InWhere(r) == /\ TextLeq(start_date, IsoFormat(r.start_time[1]))
                      /\ TextLeq(IsoFormat(r.start_time[1]), end_date)
                      /\ r.is_idle = FALSE
        sel == SelectSeq(rs, InWhere)
    IN [p \in {sel[i].process_name : i \in 1..Len(sel)} |->
          [total_time |-> GroupSum(sel, p), session_count |-> GroupCount(sel, p)]]

\* SQLite's date(start_time): the date part of the text
SqlDate(text) == text[1]

\* ORDER BY start_time: insertion into a list sorted by the start_time text
RECURSIVE InsertByStart(_, _)
InsertByStart(sorted, r) ==
    IF sorted = <<>> THEN <<r>>
    ELSE IF TextLeq(IsoFormat(Head(sorted).start_time[1]), IsoFormat(r.start_time[1]))
           THEN <<Head(sorted)>> \o InsertByStart(Tail(sorted), r)
           ELSE <<r>> \o sorted

RECURSIVE OrderByStart(_)
OrderByStart(rs) ==
    IF rs = <<>> THEN <<>>
    ELSE InsertByStart(OrderByStart(SubSeq(rs, 1, Len(rs) - 1)), rs[Len(rs)])

\* get_sessions_by_date: the rows of one date, ordered by start_time
get_sessions_by_date(rs, date) ==
    LET OnDate(r) == SqlDate(IsoFormat(r.start_time[1])) = date
    IN OrderByStart(SelectSeq(rs, OnDate))

\* the dates a widget can ask for
Dates == {SqlDate(IsoFormat(t)) : t \in 0..MaxTime}

\* update_session_tag: UPDATE activity_sessions SET tag = ? WHERE id = ?
update_session_tag(rs, session_id, tag) ==
    [i \in 1..Len(rs) |->
        IF rs[i].id = session_id THEN [rs[i] EXCEPT !.tag = Some(tag)] ELSE rs[i]]

\* variant: the DELETE is not committed
delete_activity_sessions_nocommit(rs) == rs

\* clear_data: DELETE FROM activity_sessions, committed
delete_activity_sessions(rs) == <<>>

\* -------------------------------------------------------------- segmenter
\* int((end - start).total_seconds())
Duration(start, end) ==
    IF end >= start THEN (end - start) \div TicksPerSec
                    ELSE -((start - end) \div TicksPerSec)

\* variant: the two dicts are compared whole, timestamp included
is_different_activity_dict(la, activity) ==
    IF la = None THEN TRUE ELSE activity # la[1]

is_different_activity(la, activity) ==
    IF la = None THEN TRUE
    ELSE \/ Get(activity, "process_name") # Get(la[1], "process_name")
         \/ Get(activity, "window_title") # Get(la[1], "window_title")

\* variant: only the comparison with last_activity decides
needs_new_session_diffonly(cs, la, activity) ==
    is_different_activity(la, activity)

\* the condition of the `if` in handle_activity that opens a session
needs_new_session(cs, la, activity) ==
    cs = None \/ is_different_activity(la, activity)

\* variant: the duration and the end time are written to the session's row
end_current_session_writeback(w, t) ==
    IF w.current_session = None THEN w
    ELSE LET id == w.sessions[Len(w.sessions)].id
             d == Duration(w.current_session[1].start_time, t)
         IN [w EXCEPT
               !.current_session = None,
               !.rows = [i \in 1..Len(@) |->
                           IF @[i].id = id
                             THEN [@[i] EXCEPT !.end_time = Some(t), !.duration = d]
                             ELSE @[i]],
               !.sessions = [@ EXCEPT ![Len(@)] =
                    [@ EXCEPT !.end = Some(t), !.duration = Some(d)]]]

\* variant: the slot is not cleared
end_current_session_noclear(w, t) ==
    IF w.current_session = None THEN w
    ELSE [w EXCEPT
            !.sessions = [@ EXCEPT ![Len(@)] =
                 [@ EXCEPT !.end = Some(t),
                           !.duration = Some(Duration(w.current_session[1].start_time, t))]]]

\* the window's state is the record w: current_session, last_activity,
\* rows, nextId, sessions
end_current_session(w, t) ==
    IF w.current_session = None THEN w
    ELSE [w EXCEPT
            !.current_session = None,
            !.sessions = [@ EXCEPT ![Len(@)] =
                 [@ EXCEPT !.end = Some(t),
                           !.duration = Some(Duration(w.current_session[1].start_time, t))]]]

\* variant: the session starts at the observation's timestamp
start_new_session_ts(w, activity, t) ==
    LET db == log_activity([rows |-> w.rows, nextId |-> w.nextId], activity)
    IN [w EXCEPT
          !.current_session = Some([start_time |-> activity.timestamp,
                                    activity |-> activity]),
          !.rows = db.rows,
          !.nextId = db.nextId,
          !.sessions = Append(@, [id |-> w.nextId,
                                  process_name |-> activity.process_name,
                                  window_title |-> activity.window_title,
                                  start_time |-> activity.timestamp,
                                  end |-> None,
                                  duration |-> None])]

start_new_session(w, activity, t) ==
    LET db == log_activity([rows |-> w.rows, nextId |-> w.nextId], activity)
    IN [w EXCEPT
          !.current_session = Some([start_time |-> t, activity |-> activity]),
          !.rows = db.rows,
          !.nextId = db.nextId,
          !.sessions = Append(@, [id |-> w.nextId,
                                  process_name |-> activity.process_name,
                                  window_title |-> activity.window_title,
                                  start_time |-> t,
                                  end |-> None,
                                  duration |-> None])]

\* variant: last_activity is kept up to date only while a session continues
handle_activity_lastelse(w, activity, t) ==
    IF Get(activity, "type") = Some("idle")
      THEN end_current_session(w, t)
      ELSE IF needs_new_session(w.current_session, w.last_activity, activity)
             THEN start_new_session(end_current_session(w, t), activity, t)
             ELSE [w EXCEPT !.last_activity = Some(activity)]

\* variant: an idle observation is logged like any other
handle_activity_logidle(w, activity, t) ==
    IF Get(activity, "type") = Some("idle")
      THEN LET db == log_activity([rows |-> w.rows, nextId |-> w.nextId], activity)
           IN [end_current_session(w, t) EXCEPT !.rows = db.rows,
                                                !.nextId = db.nextId]
      ELSE LET w1 == IF needs_new_session(w.current_session, w.last_activity, activity)
                       THEN start_new_session(end_current_session(w, t), activity, t)
                       ELSE w
           IN [w1 EXCEPT !.last_activity = Some(activity)]

\* variant: a silence longer than the poll interval also starts a session
handle_activity_gap(w, activity, t) ==
    IF Get(activity, "type") = Some("idle")
      THEN end_current_session(w, t)
      ELSE LET gap == /\ w.last_activity # None
                      /\ activity.timestamp - w.last_activity[1].timestamp > TicksPerSec
               w1 == IF needs_new_session(w.current_session, w.last_activity, activity) \/ gap
                       THEN start_new_session(end_current_session(w, t), activity, t)
                       ELSE w
           IN [w1 EXCEPT !.last_activity = Some(activity)]

handle_activity(w, activity, t) ==
    IF Get(activity, "type") = Some("idle")
      THEN end_current_session(w, t)
      ELSE LET w1 == IF needs_new_session(w.current_session, w.last_activity, activity)
                       THEN start_new_session(end_current_session(w, t), activity, t)
                       ELSE w
           IN [w1 EXCEPT !.last_activity = Some(activity)]

Window == [current_session |-> current_session, last_activity |-> last_activity,
           rows |-> rows, nextId |-> nextId, sessions |-> sessions]

\* ------------------------------------------------------------------- Init
Init ==
    /\ now = 0
    /\ platform \in Platforms
    /\ running = FALSE
    /\ idle_threshold = IdleThresholdSecs
    /\ last_activity_time = 0
    /\ tpc = "start"
    /\ wake = 0
    /\ queue = <<>>
    /\ mpc = "events"
    /\ current_session = None
    /\ last_activity = None
    /\ rows = <<>>
    /\ nextId = 1
    /\ sessions = <<>>
    /\ last = [op |-> "none"]
    /\ tick = [raised |-> FALSE, null |-> TRUE, prev_idle |-> FALSE, idle |-> FALSE]
    /\ ui = [purge |-> None, dashboard |-> None, timeline |-> <<>>]
    /\ stats = None

\* ---------------------------------------------------------------- actions
\* the clock advances
Tick ==
    /\ now < MaxTime
    /\ now' = now + 1
    /\ UNCHANGED <<platform, trackerVars, queue, mpc, windowVars, uiVars>>

\* run(): self.running = True
RunStart ==
    /\ tpc = "start"
    /\ running' = TRUE
    /\ tpc' = "loop"
    /\ UNCHANGED <<now, platform, idle_threshold, last_activity_time, wake,
                   tick, queue, mpc, windowVars, uiVars>>

\* run(): while self.running
RunLoop ==
    /\ tpc = "loop"
    /\ tpc' = IF running THEN "probe" ELSE "done"
    /\ UNCHANGED <<now, platform, running, idle_threshold, last_activity_time,
                   wake, tick, queue, mpc, windowVars, uiVars>>

\* run(): the probe; an observation is emitted and last_activity_time reset.
\* An exception that reaches run() is printed and followed by time.sleep(5).
RunProbe ==
    /\ tpc = "probe"
    /\ \E o \in platform_probe(now) :
         LET r == get_active_window(o)
         IN /\ tick' = [raised |-> o.raised, null |-> (r.value = None),
                        prev_idle |-> tick.idle, idle |-> FALSE]
            /\ IF r.raised
                 THEN /\ tpc' = "sleep"
                      /\ wake' = now + ErrorSleepSecs * TicksPerSec
                      /\ UNCHANGED <<queue, last_activity_time>>
                 ELSE /\ tpc' = "check"
                      /\ wake' = wake
                      /\ IF r.value # None
                           THEN /\ Len(queue) < MaxQueue
                                /\ queue' = Append(queue, r.value[1])
                                /\ last_activity_time' = now
                           ELSE UNCHANGED <<queue, last_activity_time>>
    /\ UNCHANGED <<now, platform, running, idle_threshold, mpc, windowVars, uiVars>>

\* run(): the idle check, then time.sleep(1)
RunIdleCheck ==
    /\ tpc = "check"
    /\ IF idle_exceeded(now, last_activity_time, idle_threshold)
         THEN /\ Len(queue) < MaxQueue
              /\ queue' = Append(queue, IdleObs(now))
              /\ tick' = [tick EXCEPT !.idle = TRUE]
         ELSE UNCHANGED <<queue, tick>>
    /\ tpc' = "sleep"
    /\ wake' = now + TicksPerSec
    /\ UNCHANGED <<now, platform, running, idle_threshold, last_activity_time,
                   mpc, windowVars, uiVars>>

\* run(): time.sleep(1) returns
RunWake ==
    /\ tpc = "sleep"
    /\ now >= wake
    /\ tpc' = "loop"
    /\ UNCHANGED <<now, platform, running, idle_threshold, last_activity_time,
                   wake, tick, queue, mpc, windowVars, uiVars>>

\* the GUI thread's event loop, or the loop of a modal dialog of clear_data,
\* delivers the oldest queued signal to handle_activity
HandleActivity ==
    /\ mpc \in {"events", "cleared"}
    /\ queue # <<>>
    /\ LET activity == Head(queue)
           w == handle_activity(Window, activity, now)
       IN /\ w.nextId <= MaxSessions + 1
          /\ current_session' = w.current_session
          /\ last_activity' = w.last_activity
          /\ rows' = w.rows
          /\ nextId' = w.nextId
          /\ sessions' = w.sessions
          /\ last' = [op |-> "handle", activity |-> activity, at |-> now,
                      current_session |-> current_session,
                      last_activity |-> last_activity,
                      rows |-> rows, nextId |-> nextId]
    /\ queue' = Tail(queue)
    /\ UNCHANGED <<now, platform, trackerVars, mpc, uiVars>>

\* quit_application(): stop() clears running and waits for the thread
QuitApplication ==
    /\ mpc = "events"
    /\ running' = FALSE
    /\ mpc' = "wait"
    /\ UNCHANGED <<now, platform, idle_threshold, last_activity_time, tpc, wake,
                   tick, queue, windowVars, uiVars>>

\* stop(): self.wait() returns once run() has returned; QApplication.quit()
QuitDone ==
    /\ mpc = "wait"
    /\ tpc = "done"
    /\ mpc' = "quit"
    /\ UNCHANGED <<now, platform, trackerVars, queue, windowVars, uiVars>>

\* clear_data(), the user has answered Yes: both DELETEs are committed and
\* the "Data Cleared" dialog opens; its event loop still delivers signals
ClearData ==
    /\ mpc = "events"
    /\ rows' = delete_activity_sessions(rows)
    /\ ui' = [ui EXCEPT !.purge = Some(nextId), !.dashboard = None]
    /\ last' = [op |-> "clear"]
    /\ mpc' = "cleared"
    /\ UNCHANGED <<now, platform, trackerVars, queue, current_session,
                   last_activity, nextId, sessions, stats>>

\* clear_data(), the dialog is closed: update_dashboard() queries today's
\* sessions, update_timeline() those of the date selected in the timeline
ClearDataRefresh ==
    /\ mpc = "cleared"
    /\ \E selected_date \in Dates :
         ui' = [ui EXCEPT
                  !.dashboard = Some(get_sessions_by_date(rows, SqlDate(IsoFormat(now)))),
                  !.timeline = get_sessions_by_date(rows, selected_date)]
    /\ mpc' = "events"
    /\ UNCHANGED <<now, platform, trackerVars, queue, windowVars, stats>>

\* edit_tag(): the user gives a tag to an item of the timeline
EditTag ==
    /\ mpc = "events"
    /\ \E k \in 1..Len(ui.timeline), tag \in Tags :
         /\ rows' = update_session_tag(rows, ui.timeline[k].id, tag)
         /\ ui' = [ui EXCEPT !.timeline[k].tag = Some(tag)]
    /\ last' = [op |-> "tag"]
    /\ UNCHANGED <<now, platform, trackerVars, queue, mpc, current_session,
                   last_activity, nextId, sessions, stats>>

Next ==
    \/ Tick
    \/ RunStart
    \/ RunLoop
    \/ RunProbe
    \/ RunIdleCheck
    \/ RunWake
    \/ HandleActivity
    \/ QuitApplication
    \/ QuitDone

Spec == Init /\ [][Next]_vars

\* ------------------------------------------- the user at the window
\* the tracker and the segmenter together with the user's purges and tag
\* edits, on the platform of the generic probe; the timeline shows what
\* clear_data's refresh has last put there
InitUI == Init /\ platform = "process"

NextUI ==
    \/ Next
    \/ ClearData
    \/ ClearDataRefresh
    \/ EditTag

SpecUI == InitUI /\ [][NextUI]_vars

\* ------------------------------------------------ a failing store write
\* handle_activity on an observation that opens a session, with the INSERT
\* of log_activity raising: the old session is ended and the slot set
\* (lines 881, 901), then the exception leaves the slot handle_activity
\* unhandled, which makes PyQt abort the process
HandleActivityFault ==
    /\ mpc \in {"events", "cleared"}
    /\ queue # <<>>
    /\ LET activity == Head(queue)
           w == end_current_session(Window, now)
       IN /\ Get(activity, "type") # Some("idle")
          /\ needs_new_session(current_session, last_activity, activity)
          /\ current_session' = Some([start_time |-> now, activity |-> activity])
          /\ sessions' = w.sessions
          /\ last' = [op |-> "fault", activity |-> activity, at |-> now]
    /\ queue' = Tail(queue)
    /\ mpc' = "crashed"
    /\ UNCHANGED <<now, platform, trackerVars, last_activity, rows, nextId, uiVars>>

NextFault ==
    \/ Next
    \/ HandleActivityFault

SpecFault == Init /\ [][NextFault]_vars

\* ------------------------------------------------ the statistics query
\* a row of activity_sessions with any content
StatRow(i, p, t, d, idle) ==
    [id |-> i, process_name |-> p, window_title |-> "", start_time |-> Some(t),
     end_time |-> None, duration |-> d, tag |-> None, is_idle |-> idle]

StatRows(i) ==
    {StatRow(i, p, t, d, idle) :
        p \in Procs, t \in 0..MaxTime, d \in StatDurations, idle \in BOOLEAN}

\* the stores of at most MaxStatRows rows
StatStores ==
    UNION {{f \in [1..n -> UNION {StatRows(i) : i \in 1..n}] :
               \A i \in 1..n : f[i].id = i} : n \in 0..MaxStatRows}

\* the application starts on a store of any content, at any time
InitStats ==
    /\ now \in 0..MaxTime
    /\ platform = "window"
    /\ running = FALSE
    /\ idle_threshold = IdleThresholdSecs
    /\ last_activity_time = now
    /\ tpc = "start"
    /\ wake = 0
    /\ queue = <<>>
    /\ mpc = "events"
    /\ current_session = None
    /\ last_activity = None
    /\ rows \in StatStores
    /\ nextId = Len(rows) + 1
    /\ sessions = <<>>
    /\ last = [op |-> "none"]
    /\ tick = [raised |-> FALSE, null |-> TRUE, prev_idle |-> FALSE, idle |-> FALSE]
    /\ ui = [purge |-> None, dashboard |-> None, timeline |-> <<>>]
    /\ stats = None

\* StatsWidget.update_stats: the query behind the statistics table
StatsQuery ==
    /\ mpc = "events"
    /\ \E days \in StatDays :
         stats' = Some([days |-> days, at |-> now,
                        result |-> get_app_usage_stats(rows, now, days)])
    /\ UNCHANGED <<now, platform, trackerVars, queue, mpc, windowVars, ui>>

NextStats == StatsQuery

SpecStats == InitStats /\ [][NextStats]_vars

TypeOK ==
    /\ now \in 0..MaxTime
    /\ tpc \in {"start", "loop", "probe", "check", "sleep", "done"}
    /\ mpc \in {"events", "cleared", "wait", "quit", "crashed"}
    /\ Len(queue) <= MaxQueue
    /\ Len(rows) <= MaxSessions
    /\ \A i \in 1..Len(rows) : rows[i].id < nextId
    /\ nextId \in 1..(MaxSessions + 1)

\* ----------------------------------------------------------------- claims
\* the last step of the GUI thread was a call of handle_activity
Handled == last.op = "handle"
IsIdle(a) == Get(a, "type") = Some("idle")
\* the identity of an observation: (process_name, window_title)
Identity(a) == <<Get(a, "process_name"), Get(a, "window_title")>>
RowIds(rs) == {rs[i].id : i \in 1..Len(rs)}

\* C1: right after handle_activity has processed an idle observation no
\* session is open, whether or not one was open before.
C1_IdleLeavesNoSession ==
    (Handled /\ IsIdle(last.activity)) => current_session = None

C1_Witness ==
    /\ Handled /\ IsIdle(last.activity)
    /\ last.current_session # None
    /\ current_session = None

\* C2: a non-idle observation handled while no session is open, or while the
\* open session has another identity, closes the open session and opens
\* exactly one session: one row is inserted, with the observation's
\* timestamp as start_time and its process_name and window_title, and the
\* slot holds the observation.
C2_OpensPre ==
    /\ Handled /\ ~IsIdle(last.activity)
    /\ \/ last.current_session = None
       \/ Identity(last.current_session[1].activity) # Identity(last.activity)

C2_OpensOneSession ==
    C2_OpensPre =>
      /\ current_session # None
      /\ current_session[1].activity = last.activity
      /\ Len(rows) = Len(last.rows) + 1
      /\ SubSeq(rows, 1, Len(last.rows)) = last.rows
      /\ LET r == rows[Len(rows)]
         IN /\ r.id = last.nextId
            /\ r.start_time = Some(last.activity.timestamp)
            /\ r.process_name = last.activity.process_name
            /\ r.window_title = last.activity.window_title
      /\ sessions[Len(sessions)].end = None
      /\ \A i \in 1..(Len(sessions) - 1) : sessions[i].end # None

\* the observation waited in the queue and displaced another session
C2_Witness ==
    /\ C2_OpensPre
    /\ last.current_session # None
    /\ last.activity.timestamp < last.at
    /\ Len(rows) = Len(last.rows) + 1

\* C3: a non-idle observation with the identity of the open session creates
\* no session: the slot keeps its start time and activity and the store
\* gets no row.
C3_SamePre ==
    /\ Handled /\ ~IsIdle(last.activity)
    /\ last.current_session # None
    /\ Identity(last.current_session[1].activity) = Identity(last.activity)

C3_SameIdentityContinues ==
    C3_SamePre =>
      /\ current_session = last.current_session
      /\ rows = last.rows
      /\ nextId = last.nextId

C3_Witness ==
    /\ C3_SamePre
    /\ last.activity.timestamp > last.current_session[1].activity.timestamp
    /\ current_session = last.current_session
    /\ rows # <<>>

OpenRecordIds ==
    {rows[i].id : i \in {k \in 1..Len(rows) : rows[k].end_time = None}}
    \cup (IF current_session # None THEN {sessions[Len(sessions)].id} ELSE {})

\* C5: at most one session record is open (end_time NULL) at any time,
\* counting the current_session slot and the rows of activity_sessions.
C5_AtMostOneOpenRecord == Cardinality(OpenRecordIds) <= 1

\* the rows of the store that belong to session s
RowsOf(s) == {i \in 1..Len(rows) : rows[i].id = s.id}
ClosedSessions == {i \in 1..Len(sessions) : sessions[i].end # None}

\* C6: every closed session has reached the store exactly once in
\* finalized form: one row, carrying the session's end time and duration.
C6_ClosedSessionFinalizedInStore ==
    \A i \in ClosedSessions :
       /\ Cardinality(RowsOf(sessions[i])) = 1
       /\ \A k \in RowsOf(sessions[i]) :
            /\ rows[k].end_time = sessions[i].end
            /\ Some(rows[k].duration) = sessions[i].duration

\* C7: the recorded duration of every closed session is its end minus its
\* start in whole seconds, rounded down, and is not negative.
C7_RecordedDurationIsFloor ==
    \A i \in ClosedSessions : \A k \in RowsOf(sessions[i]) :
       /\ rows[k].duration >= 0
       /\ rows[k].duration * TicksPerSec <= sessions[i].end[1] - sessions[i].start_time
       /\ sessions[i].end[1] - sessions[i].start_time < (rows[k].duration + 1) * TicksPerSec

\* C8: when an idle observation has closed a session of identity X and the
\* next non-idle observation has identity X again, a session is opened for
\* it, with a store id that no earlier session has.
C8_ReopenPre ==
    /\ Handled /\ ~IsIdle(last.activity)
    /\ last.current_session = None
    /\ last.last_activity # None
    /\ Identity(last.last_activity[1]) = Identity(last.activity)

C8_SameIdentityAfterIdleReopens ==
    C8_ReopenPre =>
      /\ current_session # None
      /\ current_session[1].activity = last.activity
      /\ Len(rows) = Len(last.rows) + 1
      /\ rows[Len(rows)].id \notin RowIds(last.rows)
      /\ Len(sessions) >= 2
      /\ \A i \in 1..(Len(sessions) - 1) :
            sessions[i].id # sessions[Len(sessions)].id

C8_Witness ==
    /\ C8_ReopenPre
    /\ Len(sessions) >= 2
    /\ sessions[Len(sessions) - 1].process_name = last.activity.process_name
    /\ sessions[Len(sessions) - 1].window_title = last.activity.window_title
    /\ sessions[Len(sessions) - 1].id # sessions[Len(sessions)].id

\* this step is handle_activity taking an observation that is idle or has
\* another identity than the open session
EndingStep ==
    /\ queue # <<>>
    /\ queue' = Tail(queue)
    /\ last'.op = "handle"
    /\ \/ IsIdle(Head(queue))
       \/ Identity(Head(queue)) # Identity(current_session[1].activity)

\* C9: an open session ends only when an idle observation or one with
\* another identity is handled; every other step (a tick whose probe gives
\* nothing, an observation of the same identity after any gap) leaves it
\* open and unsplit.
C9_OnlyIdleOrChangeEnds ==
    [][(current_session # None /\ ~EndingStep)
         => (current_session' = current_session /\ sessions' = sessions
             /\ nextId' = nextId)]_vars

\* the open session has taken an observation of its own identity sampled
\* more than one poll interval after the one that opened it
C9_Witness ==
    /\ C3_SamePre
    /\ last.activity.timestamp
          > last.current_session[1].activity.timestamp + TicksPerSec
    /\ current_session = last.current_session
    /\ sessions[Len(sessions)].end = None

\* C10: handling an idle observation inserts no row, and no row of
\* activity_sessions ever has is_idle set.
C10_IdleRecordsNothing ==
    /\ \A i \in 1..Len(rows) : ~rows[i].is_idle
    /\ (Handled /\ IsIdle(last.activity))
          => (rows = last.rows /\ nextId = last.nextId)

C10_Witness ==
    /\ Handled /\ IsIdle(last.activity)
    /\ last.current_session # None
    /\ rows # <<>>
    /\ rows = last.rows

\* this step is the idle check of run() (line 79) followed by the sleep
IdleCheckStep == tpc = "check" /\ tpc' = "sleep"

\* C11: on every poll tick whose check finds now - last_activity_time above
\* idle_threshold an idle observation is emitted, on every other tick none;
\* and once a tick has emitted one, each following tick whose probe
\* returns nothing emits one again.
C11_IdleEveryTickWhileExceeded ==
    [][IdleCheckStep =>
         /\ IF now - last_activity_time > idle_threshold * TicksPerSec
              THEN queue' = Append(queue, IdleObs(now))
              ELSE queue' = queue
         /\ (tick.prev_idle /\ tick.null) => tick'.idle]_vars

\* two consecutive ticks have emitted an idle observation
C11_Witness ==
    /\ tpc = "sleep"
    /\ tick.prev_idle /\ tick.null /\ tick.idle
    /\ now - last_activity_time > idle_threshold * TicksPerSec

\* this step is the call of get_active_window in run() (line 73)
ProbeStep == tpc = "probe" /\ tpc' # "probe"

\* C12: when the platform probe raises, get_active_window returns None:
\* the tick emits no observation, leaves last_activity_time alone and
\* run() goes on to its idle check as after any empty probe.
C12_ProbeFailureIsNone ==
    [][(ProbeStep /\ tick'.raised) =>
         /\ tick'.null
         /\ queue' = queue
         /\ last_activity_time' = last_activity_time
         /\ tpc' = "check"]_vars

\* the probe has raised on this tick and run() is at its idle check
C12_Witness ==
    /\ tpc = "check"
    /\ tick.raised /\ tick.null
    /\ running

\* this step is the test of `while self.running` in run()
LoopTestStep == tpc = "loop" /\ tpc' # "loop"

\* C13: once stop() has been called the polling loop observes the stop
\* signal and exits, whatever the interleaving: every test of the loop
\* condition made after stop() has cleared the flag leaves the loop.
C13_LoopExitsAfterStop ==
    [][(mpc = "wait" /\ LoopTestStep) => tpc' = "done"]_vars

\* C14: on shutdown a session that is open is closed before the
\* application exits: no run ends with current_session still set.
C14_NoOpenSessionAtExit ==
    mpc = "quit" => current_session = None

\* the rows the statistics must count: not idle, started in the window
Counted(q) ==
    {i \in 1..Len(rows) :
        /\ ~rows[i].is_idle
        /\ q.at - q.days * DayTicks <= rows[i].start_time[1]
        /\ rows[i].start_time[1] <= q.at}

RECURSIVE SumDurations(_)
SumDurations(I) ==
    IF I = {} THEN 0
    ELSE LET i == CHOOSE k \in I : TRUE
         IN rows[i].duration + SumDurations(I \ {i})

\* C15: get_app_usage_stats(days) counts exactly the sessions that are not
\* idle and whose start_time lies in [now - days, now]: a process has an
\* entry iff it has such a session, session_count is their number and
\* total_time the sum of their durations.
C15_StatsCountNonIdleInWindow ==
    stats # None =>
      LET q == stats[1]
          Of(p) == {i \in Counted(q) : rows[i].process_name = p}
      IN /\ DOMAIN q.result = {rows[i].process_name : i \in Counted(q)}
         /\ \A p \in DOMAIN q.result :
              /\ q.result[p].session_count = Cardinality(Of(p))
              /\ q.result[p].total_time = SumDurations(Of(p))

\* a query over a store with an idle row inside the window and a row of
\* the same process that counts
C15_Witness ==
    /\ stats # None
    /\ \E i, j \in 1..Len(rows) :
         /\ i \in Counted(stats[1])
         /\ rows[j].is_idle
         /\ rows[j].duration > 0
         /\ rows[j].process_name = rows[i].process_name
         /\ stats[1].at - stats[1].days * DayTicks <= rows[j].start_time[1]
         /\ rows[j].start_time[1] <= stats[1].at

\* clear_data has purged the store and has refreshed the displays
Refreshed == ui.purge # None /\ ui.dashboard # None

\* C16 as stated: after the purge get_sessions_by_date returns an empty
\* sequence for every date, the refresh that clear_data performs included.
C16_QueryAfterPurgeIsEmpty ==
    Refreshed => (ui.dashboard[1] = <<>> /\ ui.timeline = <<>>)

\* C16 amended: get_sessions_by_date returns an empty sequence for every
\* date as long as handle_activity has opened no session since the purge;
\* the refresh of clear_data shows no row from before the purge, only the
\* rows inserted while the "Data Cleared" dialog was open.
C16_QueryAfterPurgeHasOnlyNewRows ==
    /\ last.op = "clear" => \A d \in Dates : get_sessions_by_date(rows, d) = <<>>
    /\ (ui.purge # None /\ nextId = ui.purge[1])
          => \A d \in Dates : get_sessions_by_date(rows, d) = <<>>
    /\ Refreshed =>
          /\ \A i \in 1..Len(ui.dashboard[1]) : ui.dashboard[1][i].id >= ui.purge[1]
          /\ \A i \in 1..Len(ui.timeline) : ui.timeline[i].id >= ui.purge[1]

\* a store with rows was purged and the refresh shows a row that was
\* inserted while the dialog was open
C16_Witness ==
    /\ Refreshed
    /\ ui.purge[1] > 1
    /\ ui.dashboard[1] # <<>>
    /\ \A i \in 1..Len(ui.dashboard[1]) : ui.dashboard[1][i].id >= ui.purge[1]

\* C17: a failing store write at the opening of a session does not stop
\* tracking: the segmenter absorbs it and goes on handling observations.
C17_TrackingSurvivesStoreFailure ==
    last.op = "fault" => mpc \in {"events", "cleared"}

\* C18: no end time or duration is ever written back: every row of
\* activity_sessions has end_time NULL and duration 0, and a call of
\* handle_activity that closes a session leaves the rows it found as they
\* were.
C18_NoEndTimeWrittenBack ==
    /\ \A i \in 1..Len(rows) : rows[i].end_time = None /\ rows[i].duration = 0
    /\ (Handled /\ last.current_session # None /\ current_session = None)
          => rows = last.rows
    /\ (Handled /\ last.current_session # None)
          => SubSeq(rows, 1, Len(last.rows)) = last.rows

\* a session that lasted a second or more was closed, and a row carries a
\* tag the user gave it
C18_Witness ==
    /\ Handled /\ last.current_session # None
    /\ last.at - last.current_session[1].start_time >= TicksPerSec
    /\ \E i \in 1..Len(rows) : rows[i].tag # None /\ rows[i].end_time = None

\* C19: whenever a session is open, last_activity holds its identity, so
\* is_different_activity decides as a comparison with the open session's
\* identity would.
C19_LastActivityIsOpenSession ==
    current_session # None =>
      /\ last_activity # None
      /\ Identity(last_activity[1]) = Identity(current_session[1].activity)
      /\ \A o \in platform_probe(now) :
            o.value # None =>
              (is_different_activity(last_activity, o.value[1])
                 <=> Identity(o.value[1]) # Identity(current_session[1].activity))

\* a session is open and the observation handled last was a later one of
\* the same identity
C19_Witness ==
    /\ current_session # None
    /\ last_activity # None
    /\ last_activity[1] # current_session[1].activity
    /\ Len(sessions) >= 2

\* C20: whenever a session is open in memory the store holds the row that
\* was inserted for it.
C20_OpenSessionHasItsRow ==
    current_session # None =>
      \E i \in 1..Len(rows) :
         /\ rows[i].id = sessions[Len(sessions)].id
         /\ rows[i].process_name = current_session[1].activity.process_name
         /\ rows[i].window_title = current_session[1].activity.window_title
         /\ rows[i].start_time = Some(current_session[1].activity.timestamp)

====
